---- MODULE Spec2Model ----
(***************************************************************************)
(* A model of cle/memory.py: the Clemory address space.  A Clemory object  *)
(* is a record of its five fields; a nested Clemory used as a backer is    *)
(* the record of that object.  Python exceptions are the field exc of the  *)
(* value an operation returns ("none" when it returns normally).           *)
(***************************************************************************)
EXTENDS Integers, Sequences, FiniteSets, TLC

VARIABLES backers, updates, pointer, cbackers, flattening_needed, last

vars == <<backers, updates, pointer, cbackers, flattening_needed, last>>

\* ---------------------------------------------------------------- bounds
\* the backers a space is given, the overlay entries it comes to hold, and
\* how far the stream cursor is taken
MaxBackers == 2
MaxUpdates == 2
MaxPointer == 3

\* ---------------------------------------------------------------- values
\* a one-character str, as stored in _updates by __setitem__
Chr(c) == [tag |-> "chr", c |-> c]
\* the tuple (start, data) that update_backer stores
Tuple(start, data) == [tag |-> "tuple", start |-> start, data |-> data]

\* the two kinds of backer data, and data of any other type
Str(s) == [type |-> "str", str |-> s]
Mem(m) == [type |-> "Clemory", mem |-> m]
Other == [type |-> "other"]

Return(v) == [exc |-> "none", ret |-> v]
Raise(e) == [exc |-> e]

\* Clemory.__init__
Clemory ==
    [backers |-> <<>>, updates |-> <<>>, pointer |-> 0,
     cbackers |-> <<>>, flattening_needed |-> TRUE]

self ==
    [backers |-> backers, updates |-> updates, pointer |-> pointer,
     cbackers |-> cbackers, flattening_needed |-> flattening_needed]

\* ---------------------------------------------------------------- reads
RECURSIVE getitem(_, _), getitem_scan(_, _, _)

\* the scan returning the first byte of the str that covers k
getitem_scan_first_byte(bs, i, k) ==
    IF i > Len(bs) THEN Raise("KeyError")
    ELSE LET start == bs[i][1]
             data == bs[i][2]
         IN IF data.type = "str"
            THEN IF 0 <= k - start /\ k - start < Len(data.str)
                 THEN Return(Chr(data.str[1]))
                 ELSE getitem_scan(bs, i + 1, k)
            ELSE IF data.type = "Clemory"
            THEN LET r == getitem(data.mem, k - start)
                 IN IF r.exc = "none" THEN r
                    ELSE getitem_scan(bs, i + 1, k)
            ELSE getitem_scan(bs, i + 1, k)

\* the scan without the try around the read of a nested space
getitem_scan_nested_raises(bs, i, k) ==
    IF i > Len(bs) THEN Raise("KeyError")
    ELSE LET start == bs[i][1]
             data == bs[i][2]
         IN IF data.type = "str"
            THEN IF 0 <= k - start /\ k - start < Len(data.str)
                 THEN Return(Chr(data.str[k - start + 1]))
                 ELSE getitem_scan(bs, i + 1, k)
            ELSE IF data.type = "Clemory"
            THEN getitem(data.mem, k - start)
            ELSE getitem_scan(bs, i + 1, k)

\* the for loop of __getitem__ from the i-th backer on
getitem_scan(bs, i, k) ==
    IF i > Len(bs) THEN Raise("KeyError")
    ELSE LET start == bs[i][1]
             data == bs[i][2]
         IN IF data.type = "str"
            THEN IF 0 <= k - start /\ k - start < Len(data.str)
                 THEN Return(Chr(data.str[k - start + 1]))
                 ELSE getitem_scan(bs, i + 1, k)
            ELSE IF data.type = "Clemory"
            THEN LET r == getitem(data.mem, k - start)
                 IN IF r.exc = "none" THEN r
                    ELSE getitem_scan(bs, i + 1, k)
            ELSE getitem_scan(bs, i + 1, k)

getitem(m, k) ==
    IF k \in DOMAIN m.updates THEN Return(m.updates[k])
    ELSE getitem_scan(m.backers, 1, k)

contains(m, k) == getitem(m, k).exc = "none"

\* ---------------------------------------------------------------- writes
\* d[k] = v on a dict
DictSet(d, k, v) == [x \in DOMAIN d \cup {k} |-> IF x = k THEN v ELSE d[x]]

\* setitem keeping the byte an earlier write left at k
setitem_keeps_first(m, k, v) ==
    IF ~contains(m, k) THEN [exc |-> "IndexError", mem |-> m]
    ELSE [exc |-> "none",
          mem |-> [m EXCEPT !.updates = IF k \in DOMAIN m.updates THEN m.updates
                                        ELSE DictSet(m.updates, k, v),
                            !.flattening_needed = TRUE]]

\* setitem storing the byte before it finds the address is not backed
setitem_stores_first(m, k, v) ==
    IF ~contains(m, k)
    THEN [exc |-> "IndexError",
          mem |-> [m EXCEPT !.updates = DictSet(m.updates, k, v),
                            !.flattening_needed = TRUE]]
    ELSE [exc |-> "none",
          mem |-> [m EXCEPT !.updates = DictSet(m.updates, k, v),
                            !.flattening_needed = TRUE]]

setitem(m, k, v) ==
    IF ~contains(m, k) THEN [exc |-> "IndexError", mem |-> m]
    ELSE [exc |-> "none",
          mem |-> [m EXCEPT !.updates = DictSet(m.updates, k, v),
                            !.flattening_needed = TRUE]]

\* ---------------------------------------------------------------- backers
isinstance_str_Clemory(data) == data.type \in {"str", "Clemory"}

\* Python 2 str comparison a < b
RECURSIVE StrLess(_, _)
StrLess(a, b) ==
    IF b = <<>> THEN FALSE
    ELSE IF a = <<>> THEN TRUE
    ELSE IF Head(a) # Head(b) THEN Head(a) < Head(b)
    ELSE StrLess(Tail(a), Tail(b))

\* (start, data) tuples compared as Python 2 compares them: by start, then
\* by data; a Clemory sorts before a str (type names), two str compare as
\* str, and two Clemory objects compare by id, which the program does not
\* control.  "lt": e < x, "gt": e > x, "le": e <= x and e is not > x,
\* "any": the order of the two is not determined.
TupleCmp(e, x) ==
    IF e[1] < x[1] THEN "lt"
    ELSE IF e[1] > x[1] THEN "gt"
    ELSE IF e[2].type = "str" /\ x[2].type = "str"
         THEN IF StrLess(x[2].str, e[2].str) THEN "gt" ELSE "le"
    ELSE IF e[2].type = "Clemory" /\ x[2].type = "str" THEN "lt"
    ELSE IF e[2].type = "str" /\ x[2].type = "Clemory" THEN "gt"
    ELSE "any"

\* the positions bisect.insort (insort_right) can insert x at in the sorted
\* list a: after every element <= x, before every element > x
insort_positions(a, x) ==
    {p \in 0..Len(a) :
        /\ \A i \in 1..p : TupleCmp(a[i], x) # "gt"
        /\ \A i \in (p + 1)..Len(a) : TupleCmp(a[i], x) \in {"gt", "any"}}

InsertAt(a, p, x) == SubSeq(a, 1, p) \o <<x>> \o SubSeq(a, p + 1, Len(a))

\* add_backer without the probe of start
add_backer_unprobed(m, start, data, p) ==
    IF ~isinstance_str_Clemory(data) THEN [exc |-> "TypeError", mem |-> m]
    ELSE [exc |-> "none",
          mem |-> [m EXCEPT !.backers = InsertAt(m.backers, p, <<start, data>>),
                            !.flattening_needed = TRUE]]

\* add_backer putting the new backer behind the others
add_backer_appends(m, start, data, p) ==
    IF ~isinstance_str_Clemory(data) THEN [exc |-> "TypeError", mem |-> m]
    ELSE IF contains(m, start) THEN [exc |-> "ValueError", mem |-> m]
    ELSE [exc |-> "none",
          mem |-> [m EXCEPT !.backers = Append(m.backers, <<start, data>>),
                            !.flattening_needed = TRUE]]

\* add_backer with the insertion position p the comparison of ids leads to
add_backer(m, start, data, p) ==
    IF ~isinstance_str_Clemory(data) THEN [exc |-> "TypeError", mem |-> m]
    ELSE IF contains(m, start) THEN [exc |-> "ValueError", mem |-> m]
    ELSE [exc |-> "none",
          mem |-> [m EXCEPT !.backers = InsertAt(m.backers, p, <<start, data>>),
                            !.flattening_needed = TRUE]]

\* the index (from 0, as enumerate counts) of the first backer whose start
\* is start, or -1
RECURSIVE enumerate_find(_, _, _)
enumerate_find(bs, i, start) ==
    IF i > Len(bs) THEN -1
    ELSE IF bs[i][1] = start THEN i - 1
    ELSE enumerate_find(bs, i + 1, start)

update_backer(m, start, data) ==
    IF ~isinstance_str_Clemory(data) THEN [exc |-> "TypeError", mem |-> m]
    ELSE LET i == enumerate_find(m.backers, 1, start)
         IN IF i = -1 THEN [exc |-> "none", mem |-> m]
            ELSE [exc |-> "none",
                  mem |-> [m EXCEPT !.updates = DictSet(m.updates, i, Tuple(start, data)),
                                    !.flattening_needed = TRUE]]

\* ---------------------------------------------------------------- ranges
\* read_bytes returning the bytes before the first address that is not backed
RECURSIVE read_bytes_partial(_, _, _)
read_bytes_partial(m, addr, n) ==
    IF n <= 0 THEN Return(<<>>)
    ELSE LET r == read_bytes_partial(m, addr, n - 1)
         IN IF Len(r.ret) < n - 1 THEN r
            ELSE LET b == getitem(m, addr + n - 1)
                 IN IF b.exc # "none" THEN r
                    ELSE Return(Append(r.ret, b.ret))

\* read_bytes: the list of self[i] for i in range(addr, addr + n)
RECURSIVE read_bytes(_, _, _)
read_bytes(m, addr, n) ==
    IF n <= 0 THEN Return(<<>>)
    ELSE LET r == read_bytes(m, addr, n - 1)
         IN IF r.exc # "none" THEN r
            ELSE LET b == getitem(m, addr + n - 1)
                 IN IF b.exc # "none" THEN b
                    ELSE Return(Append(r.ret, b.ret))

RECURSIVE write_bytes(_, _, _)

\* write_bytes writing nothing unless every address can be written
write_bytes_atomic(m, addr, data) ==
    IF \E i \in 1..Len(data) : ~contains(m, addr + i - 1)
    THEN [exc |-> "IndexError", mem |-> m]
    ELSE IF data = <<>> THEN [exc |-> "none", mem |-> m]
    ELSE write_bytes(setitem(m, addr, Chr(Head(data))).mem, addr + 1, Tail(data))

\* write_bytes: self[addr + i] = c for each c of data, stopping at the
\* first that raises
write_bytes(m, addr, data) ==
    IF data = <<>> THEN [exc |-> "none", mem |-> m]
    ELSE LET r == setitem(m, addr, Chr(Head(data)))
         IN IF r.exc # "none" THEN r
            ELSE write_bytes(r.mem, addr + 1, Tail(data))

\* ---------------------------------------------------------------- words
\* the architecture descriptor: arch.bytes and arch.struct_fmt() (a
\* little-endian unsigned integer of arch.bytes bytes)
arch_bytes == 2

RECURSIVE struct_pack(_, _)
struct_pack(n, addr) ==
    IF n = 0 THEN <<>>
    ELSE <<addr % 256>> \o struct_pack(n - 1, addr \div 256)

RECURSIVE struct_unpack(_)
struct_unpack(s) ==
    IF s = <<>> THEN 0
    ELSE Head(s) + 256 * struct_unpack(Tail(s))

\* ''.join(out): out must be a list of str
join(out) ==
    IF \E i \in 1..Len(out) : out[i].tag # "chr" THEN Raise("TypeError")
    ELSE Return([i \in 1..Len(out) |-> out[i].c])

read_addr_at(m, where) ==
    LET b == read_bytes(m, where, arch_bytes)
    IN IF b.exc # "none" THEN b
       ELSE LET j == join(b.ret)
            IN IF j.exc # "none" THEN j
               ELSE Return(struct_unpack(j.ret))

write_addr_at(m, where, addr) ==
    write_bytes(m, where, struct_pack(arch_bytes, addr))

\* ---------------------------------------------------------------- stream
seek(m, value) == [m EXCEPT !.pointer = value]

\* read moving the pointer before it reads, whatever nbytes is
read_advances_first(m, nbytes) ==
    LET m1 == [m EXCEPT !.pointer = m.pointer + nbytes]
    IN IF nbytes = 1
       THEN LET r == getitem(m1, m1.pointer - 1)
            IN IF r.exc # "none" THEN [exc |-> r.exc, mem |-> m1]
               ELSE [exc |-> "none", ret |-> r.ret, mem |-> m1]
       ELSE LET out == read_bytes(m, m.pointer, nbytes)
            IN IF out.exc # "none" THEN [exc |-> out.exc, mem |-> m1]
               ELSE LET j == join(out.ret)
                    IN IF j.exc # "none" THEN [exc |-> j.exc, mem |-> m1]
                       ELSE [exc |-> "none", ret |-> j.ret, mem |-> m1]

read(m, nbytes) ==
    IF nbytes = 1
    THEN LET m1 == [m EXCEPT !.pointer = m.pointer + 1]
             r == getitem(m1, m1.pointer - 1)
         IN IF r.exc # "none" THEN [exc |-> r.exc, mem |-> m1]
            ELSE [exc |-> "none", ret |-> r.ret, mem |-> m1]
    ELSE LET out == read_bytes(m, m.pointer, nbytes)
         IN IF out.exc # "none" THEN [exc |-> out.exc, mem |-> m]
            ELSE LET m1 == [m EXCEPT !.pointer = m.pointer + nbytes]
                     j == join(out.ret)
                 IN IF j.exc # "none" THEN [exc |-> j.exc, mem |-> m1]
                    ELSE [exc |-> "none", ret |-> j.ret, mem |-> m1]

\* ---------------------------------------------------------------- flattening
Min(S) == CHOOSE x \in S : \A y \in S : x <= y

\* the index of the first run of out that covers key, or 0
RECURSIVE stride_find(_, _, _)
stride_find(out, i, key) ==
    IF i > Len(out) THEN 0
    ELSE IF out[i][1] <= key /\ key < out[i][1] + Len(out[i][2]) THEN i
    ELSE stride_find(out, i + 1, key)

\* _stride_repr without its second loop
stride_apply_nothing(out, upd, keys) == Return(out)

\* the second loop of _stride_repr over the keys of _updates still to be
\* applied, taken in ascending order
RECURSIVE stride_apply(_, _, _)
stride_apply(out, upd, keys) ==
    IF keys = {} THEN Return(out)
    ELSE LET key == Min(keys)
             val == upd[key]
             i == stride_find(out, 1, key)
         IN IF i = 0 THEN Raise("ValueError")
            ELSE IF val.tag # "chr" THEN Raise("TypeError")
            ELSE stride_apply(
                    [out EXCEPT ![i] = <<out[i][1],
                        [out[i][2] EXCEPT ![key - out[i][1] + 1] = val.c]>>],
                    upd, keys \ {key})

RECURSIVE stride_repr(_), stride_backers(_, _)

\* the first loop of _stride_repr from the i-th backer on
stride_backers(bs, i) ==
    IF i > Len(bs) THEN Return(<<>>)
    ELSE LET start == bs[i][1]
             data == bs[i][2]
             head == IF data.type = "str" THEN Return(<<(<<start, data.str>>)>>)
                     ELSE LET sub == stride_repr(data.mem)
                          IN IF sub.exc # "none" THEN sub
                             ELSE Return([j \in 1..Len(sub.ret) |->
                                     <<sub.ret[j][1] + start, sub.ret[j][2]>>])
         IN IF head.exc # "none" THEN head
            ELSE LET rest == stride_backers(bs, i + 1)
                 IN IF rest.exc # "none" THEN rest
                    ELSE Return(head.ret \o rest.ret)

stride_repr(m) ==
    LET out == stride_backers(m.backers, 1)
    IN IF out.exc # "none" THEN out
       ELSE stride_apply(out.ret, m.updates, DOMAIN m.updates)

\* _flatten_to_c appending to the runs it cached before
flatten_to_c_appends(m) ==
    LET m1 == [m EXCEPT !.flattening_needed = FALSE]
        strides == stride_repr(m1)
    IN IF strides.exc # "none" THEN [exc |-> strides.exc, mem |-> m1]
       ELSE [exc |-> "none",
             mem |-> [m1 EXCEPT !.cbackers = m.cbackers \o strides.ret]]

flatten_to_c(m) ==
    LET m1 ==[m EXCEPT !.flattening_needed = FALSE]
        strides == stride_repr(m1)
    IN IF strides.exc # "none" THEN [exc |-> strides.exc, mem |-> m1]
       ELSE [exc |-> "none", mem |-> [m1 EXCEPT !.cbackers = strides.ret]]

\* the index of the first cbacker that covers addr, or 0
RECURSIVE cbackers_find(_, _, _)
cbackers_find(cb, i, addr) ==
    IF i > Len(cb) THEN 0
    ELSE IF addr >= cb[i][1] /\ addr < cb[i][1] + Len(cb[i][2]) THEN i
    ELSE cbackers_find(cb, i + 1, addr)

\* the pointer cbacker + offset
Pointer(cbacker, offset) == [cdata |-> cbacker, offset |-> offset]

read_bytes_c(m, addr) ==
    LET f == IF m.flattening_needed THEN flatten_to_c(m)
             ELSE [exc |-> "none", mem |-> m]
    IN IF f.exc # "none" THEN f
       ELSE LET i == cbackers_find(f.mem.cbackers, 1, addr)
            IN IF i = 0 THEN [exc |-> "KeyError", mem |-> f.mem]
               ELSE LET start == f.mem.cbackers[i][1]
                        cbacker == f.mem.cbackers[i][2]
                    IN [exc |-> "none", mem |-> f.mem,
                        ret |-> <<Pointer(cbacker, addr - start),
                                  Len(cbacker) - start>>]

\* ---------------------------------------------------------------- pickling
None == [type |-> "NoneType"]

ord(v) == IF v.tag = "chr" THEN Return(v.c) ELSE Raise("TypeError")
chr(n) == IF 0 <= n /\ n < 256 THEN Return(Chr(n)) ELSE Raise("ValueError")

RECURSIVE getstate(_), getstate_backers(_, _)

\* the for loop of __getstate__ from the i-th backer on: the exception it
\* raises, if any (what it appends to out is never used)
getstate_backers(bs, i) ==
    IF i > Len(bs) THEN "none"
    ELSE IF bs[i][2].type = "Clemory" /\ getstate(bs[i][2].mem).exc # "none"
         THEN getstate(bs[i][2].mem).exc
    ELSE getstate_backers(bs, i + 1)

\* __getstate__ builds out and has no return statement
getstate(m) ==
    IF \E k \in DOMAIN m.updates : ord(m.updates[k]).exc # "none"
    THEN Raise("TypeError")
    ELSE IF getstate_backers(m.backers, 1) # "none"
         THEN Raise(getstate_backers(m.backers, 1))
    ELSE Return(None)

\* the dictionary out that __getstate__ builds: the overlay bytes as
\* numbers, and for each backer its start with its str or with what
\* __getstate__ of the nested space returns
getstate_out(m) ==
    IF getstate(m).exc # "none" THEN Raise(getstate(m).exc)
    ELSE Return(
        [type |-> "dict",
         updates |-> [k \in DOMAIN m.updates |-> ord(m.updates[k]).ret],
         backers |-> [i \in 1..Len(m.backers) |->
            IF m.backers[i][2].type = "str"
            THEN <<m.backers[i][1],
                   [type |-> "str", data |-> m.backers[i][2].str]>>
            ELSE <<m.backers[i][1],
                   [type |-> "Clemory", state |-> getstate(m.backers[i][2].mem).ret]>>]])

RECURSIVE setstate(_, _), setstate_backers(_, _, _)

\* the for loop of __setstate__ from the i-th entry of s['backers'] on
setstate_backers(m, sb, i) ==
    IF i > Len(sb) THEN [exc |-> "none", mem |-> m]
    ELSE LET start == sb[i][1]
             serialdata == sb[i][2]
         IN IF serialdata.type = "str"
            THEN setstate_backers(
                    [m EXCEPT !.backers = Append(@, <<start, Str(serialdata.data)>>)],
                    sb, i + 1)
            ELSE IF serialdata.type = "Clemory"
            THEN LET subdata == setstate(Clemory, serialdata.state)
                 IN IF subdata.exc # "none" THEN [exc |-> subdata.exc, mem |-> m]
                    ELSE setstate_backers(
                            [m EXCEPT !.backers = Append(@, <<start, Mem(subdata.mem)>>)],
                            sb, i + 1)
            ELSE setstate_backers(m, sb, i + 1)

setstate(m, s) ==
    IF s.type # "dict" THEN [exc |-> "TypeError", mem |-> m]
    ELSE IF \E k \in DOMAIN s.updates : chr(s.updates[k]).exc # "none"
         THEN [exc |-> "ValueError", mem |-> m]
    ELSE LET m1 == [m EXCEPT !.updates = [k \in DOMAIN s.updates |-> chr(s.updates[k]).ret],
                             !.backers = <<>>]
             r == setstate_backers(m1, s.backers, 1)
         IN IF r.exc # "none" THEN r
            ELSE [exc |-> "none", mem |-> [r.mem EXCEPT !.flattening_needed = TRUE]]

\* ---------------------------------------------------------------- inputs
\* the addresses callers read, write and seek to, and the bytes they write
Addr == {0, 1, 2}
Chars == {6, 8}

\* a nested address space as a caller has built it before handing it over
\* as a backer: two bytes loaded at 1, the first of them written over, and
\* nothing at its own address 0
Nested == setitem(add_backer(Clemory, 1, Str(<<3, 4>>), 0).mem, 1, Chr(8)).mem

\* what callers add: byte sequences that are empty, apart, overlapping or at
\* the same base, the nested space, and data that is neither
AddInputs ==
    {<<0, Str(<<>>)>>, <<0, Str(<<5>>)>>, <<0, Str(<<7, 9>>)>>,
     <<1, Str(<<1, 2>>)>>, <<2, Str(<<9>>)>>,
     <<0, Mem(Nested)>>, <<1, Mem(Nested)>>, <<0, Other>>}

UpdateInputs == {<<0, Str(<<3>>)>>, <<1, Str(<<3>>)>>, <<2, Str(<<3>>)>>, <<0, Other>>}
WriteData == {<<6, 8>>}
Words == {struct_unpack(<<8, 6>>)}
ReadLens == {0, 1, 2}
\* what the owner of a nested space writes to it once it is a backer: a
\* byte at an address it resolves, and one at an address it does not
NestedWrites == {<<1, 6>>, <<0, 6>>}

\* ---------------------------------------------------------------- actions
\* the object's fields after a call
Becomes(m) ==
    /\ backers' = m.backers
    /\ updates' = m.updates
    /\ pointer' = m.pointer
    /\ cbackers' = m.cbackers
    /\ flattening_needed' = m.flattening_needed

\* what the last call was, and what it raised or returned
Called(op, args, r) ==
    last' = IF r.exc = "none" /\ "ret" \in DOMAIN r
            THEN [op |-> op, args |-> args, exc |-> "none", ret |-> r.ret]
            ELSE [op |-> op, args |-> args, exc |-> r.exc]

Init ==
    /\ backers = <<>>
    /\ updates = <<>>
    /\ pointer = 0
    /\ cbackers = <<>>
    /\ flattening_needed = TRUE
    /\ last = [op |-> "init", args |-> <<>>, exc |-> "none"]

AddBacker ==
    \E in \in AddInputs :
      \E p \in insort_positions(backers, in) :
        LET r == add_backer(self, in[1], in[2], p)
        IN /\ Len(r.mem.backers) <= MaxBackers
           /\ Becomes(r.mem)
           /\ Called("add_backer", in, r)

UpdateBacker ==
    \E in \in UpdateInputs :
        LET r == update_backer(self, in[1], in[2])
        IN /\ Cardinality(DOMAIN r.mem.updates) <= MaxUpdates
           /\ Becomes(r.mem)
           /\ Called("update_backer", in, r)

GetItem ==
    \E k \in Addr :
        /\ UNCHANGED <<backers, updates, pointer, cbackers, flattening_needed>>
        /\ Called("getitem", <<k>>, getitem(self, k))

SetItem ==
    \E k \in Addr, v \in Chars :
        LET r == setitem(self, k, Chr(v))
        IN /\ Cardinality(DOMAIN r.mem.updates) <= MaxUpdates
           /\ Becomes(r.mem)
           /\ Called("setitem", <<k, Chr(v)>>, r)

Contains ==
    \E k \in Addr :
        /\ UNCHANGED <<backers, updates, pointer, cbackers, flattening_needed>>
        /\ Called("contains", <<k>>, Return(contains(self, k)))

ReadBytes ==
    \E addr \in Addr, n \in ReadLens :
        /\ UNCHANGED <<backers, updates, pointer, cbackers, flattening_needed>>
        /\ Called("read_bytes", <<addr, n>>, read_bytes(self, addr, n))

WriteBytes ==
    \E addr \in Addr, data \in WriteData :
        LET r == write_bytes(self, addr, data)
        IN /\ Cardinality(DOMAIN r.mem.updates) <= MaxUpdates
           /\ Becomes(r.mem)
           /\ Called("write_bytes", <<addr, data>>, r)

ReadAddrAt ==
    \E where \in Addr :
        /\ UNCHANGED <<backers, updates, pointer, cbackers, flattening_needed>>
        /\ Called("read_addr_at", <<where>>, read_addr_at(self, where))

WriteAddrAt ==
    \E where \in Addr, addr \in Words :
        LET r == write_addr_at(self, where, addr)
        IN /\ Cardinality(DOMAIN r.mem.updates) <= MaxUpdates
           /\ Becomes(r.mem)
           /\ Called("write_addr_at", <<where, addr>>, r)

Seek ==
    \E value \in Addr :
        /\ Becomes(seek(self, value))
        /\ Called("seek", <<value>>, [exc |-> "none"])

Read ==
    \E nbytes \in ReadLens :
        LET r == read(self, nbytes)
        IN /\ r.mem.pointer <= MaxPointer
           /\ Becomes(r.mem)
           /\ Called("read", <<nbytes>>, r)

FlattenToC ==
    LET r == flatten_to_c(self)
    IN /\ Becomes(r.mem)
       /\ Called("flatten_to_c", <<>>, r)

ReadBytesC ==
    \E addr \in Addr :
        LET r == read_bytes_c(self, addr)
        IN /\ Becomes(r.mem)
           /\ Called("read_bytes_c", <<addr>>, r)

\* a write made to a nested space that is the i-th backer of this one,
\* through the reference its owner kept: __setitem__ of the nested object,
\* which assigns to the fields of that object only
NestedSetItem ==
    \E i \in 1..Len(backers), in \in NestedWrites :
        /\ backers[i][2].type = "Clemory"
        /\ LET k == in[1]
               v == in[2]
               r == setitem(backers[i][2].mem, k, Chr(v))
           IN /\ Cardinality(DOMAIN r.mem.updates) <= MaxUpdates
              /\ backers' = [backers EXCEPT ![i] = <<backers[i][1], Mem(r.mem)>>]
              /\ UNCHANGED <<updates, pointer, cbackers, flattening_needed>>
              /\ Called("nested.setitem", <<i, k, Chr(v)>>, r)

\* restore(snapshot(space)): a new Clemory, obj, is given __setstate__ of
\* what __getstate__ of this one returns
Restore ==
    LET s == getstate(self)
        r == IF s.exc # "none" THEN [exc |-> s.exc, mem |-> Clemory]
             ELSE setstate(Clemory, s.ret)
    IN /\ UNCHANGED <<backers, updates, pointer, cbackers, flattening_needed>>
       /\ last' = [op |-> "restore", args |-> <<>>, exc |-> r.exc, obj |-> r.mem]

Next ==
    \/ AddBacker
    \/ UpdateBacker
    \/ GetItem
    \/ SetItem
    \/ Contains
    \/ ReadBytes
    \/ WriteBytes
    \/ ReadAddrAt
    \/ WriteAddrAt
    \/ Seek
    \/ Read
    \/ FlattenToC
    \/ ReadBytesC
    \/ Restore
    \/ NestedSetItem

Spec == Init /\ [][Next]_vars

\* the operations on the backers and the overlay
NextStore ==
    \/ AddBacker
    \/ UpdateBacker
    \/ SetItem
    \/ GetItem
    \/ Contains

SpecStore == Init /\ [][NextStore]_vars

\* add and write, and the rebuild that marks the flattened view valid
NextStale ==
    \/ AddBacker
    \/ SetItem
    \/ FlattenToC

SpecStale == Init /\ [][NextStale]_vars

\* bounded access to the flattened view over added backers and written
\* bytes (write_bytes is a loop of __setitem__ and leaves the overlays that
\* it leaves)
NextFlat ==
    \/ AddBacker
    \/ SetItem
    \/ ReadBytesC

SpecFlat == Init /\ [][NextFlat]_vars

\* the range and word operations
NextRange ==
    \/ AddBacker
    \/ UpdateBacker
    \/ SetItem
    \/ ReadBytes
    \/ ReadAddrAt
    \/ WriteBytes
    \/ WriteAddrAt

SpecRange == Init /\ [][NextRange]_vars

\* the stream cursor
NextStream ==
    \/ AddBacker
    \/ UpdateBacker
    \/ SetItem
    \/ Seek
    \/ Read

SpecStream == Init /\ [][NextStream]_vars

\* pickling of every space the mutators build
NextPickle ==
    \/ AddBacker
    \/ UpdateBacker
    \/ SetItem
    \/ Restore

SpecPickle == Init /\ [][NextPickle]_vars

\* the rebuild of the flattened view over every space add, replace and
\* write build
NextRebuild ==
    \/ AddBacker
    \/ UpdateBacker
    \/ SetItem
    \/ FlattenToC

SpecRebuild == Init /\ [][NextRebuild]_vars

\* bounded access to the flattened view between the mutations of the
\* store, those of a nested backer made through its owner included
NextCache ==
    \/ AddBacker
    \/ SetItem
    \/ NestedSetItem
    \/ ReadBytesC

SpecCache == Init /\ [][NextCache]_vars

\* range and word writes to spaces whose view has been rebuilt or not
NextWrite ==
    \/ AddBacker
    \/ WriteBytes
    \/ WriteAddrAt
    \/ FlattenToC

SpecWrite == Init /\ [][NextWrite]_vars

\* reads of a written byte between the operations that come between a
\* write and a read (the rebuild and the bounded access assign _cbackers and
\* _flattening_needed only, which no read looks at)
NextOrder ==
    \/ AddBacker
    \/ UpdateBacker
    \/ SetItem
    \/ GetItem
    \/ Seek
    \/ Read

SpecOrder == Init /\ [][NextOrder]_vars

\* ---------------------------------------------------------------- properties
\* every address a backer of the model can reach, and those beyond each end
AllAddr == -1..5

\* the fields of the object that a call can change
fields == <<backers, updates, pointer, cbackers, flattening_needed>>

\* C1: write-then-read consistency: a write of v at an address that is
\* resolvable succeeds, and a read of that address right after it returns v,
\* whatever the backers or the overlay held there before.
C1_WriteThenRead ==
    [][(last'.op = "setitem" /\ contains(self, last'.args[1]))
        => /\ last'.exc = "none"
           /\ getitem(self', last'.args[1]) = Return(last'.args[2])]_vars

\* a write has replaced an overlay byte above a backer that holds another
C1_Witness ==
    /\ last.op = "setitem"
    /\ last.exc = "none"
    /\ last.args[2] = Chr(6)
    /\ getitem(self, last.args[1]) = Return(Chr(6))
    /\ getitem_scan(backers, 1, last.args[1]) = Return(Chr(9))

\* the first byte at a pointer into a cbacker
Deref(ptr) == ptr.cdata[ptr.offset + 1]

\* C2: flatten/read equivalence: after add and write operations, what
\* boundedAccess returns for an address points at the byte a direct read of
\* that address returns, and so does every byte of every run of the view it
\* has built, bytes written over the backers included.
C2_FlattenReadEquivalence ==
    (last.op = "read_bytes_c" /\ last.exc = "none")
        => /\ getitem(self, last.args[1]) = Return(Chr(Deref(last.ret[1])))
           /\ \A a \in AllAddr :
                LET i == cbackers_find(cbackers, 1, a)
                IN i # 0 => getitem(self, a) =
                        Return(Chr(cbackers[i][2][a - cbackers[i][1] + 1]))

\* boundedAccess has returned a pointer at a written byte, above a backer
\* byte that differs
C2_Witness ==
    /\ last.op = "read_bytes_c"
    /\ last.exc = "none"
    /\ last.args[1] \in DOMAIN updates
    /\ Deref(last.ret[1]) = updates[last.args[1]].c
    /\ getitem_scan(backers, 1, last.args[1]).ret # updates[last.args[1]]

\* C3: the second component boundedAccess returns is the number of bytes
\* from the address to the end of the run, start + length - address, which
\* is between 1 and the length of the run.
C3_RemainingLength ==
    (last.op = "read_bytes_c" /\ last.exc = "none")
        => LET ptr == last.ret[1]
               remaining == last.ret[2]
           IN /\ remaining = Len(ptr.cdata) - ptr.offset
              /\ 1 <= remaining
              /\ remaining <= Len(ptr.cdata)

\* C4: replace at the base of an existing backer puts (base, region) in that
\* backer's place and leaves the overlay alone; with no backer at that base
\* it changes nothing.
C4_ReplaceSwapsRegion ==
    [][(last'.op = "update_backer" /\ last'.exc = "none")
        => LET start == last'.args[1]
               data == last'.args[2]
           IN IF \E i \in 1..Len(backers) : backers[i][1] = start
              THEN /\ Len(backers') = Len(backers)
                   /\ \E i \in 1..Len(backers) :
                        /\ backers[i][1] = start
                        /\ backers' = [backers EXCEPT ![i] = <<start, data>>]
                   /\ updates' = updates
              ELSE UNCHANGED fields]_vars

\* C5: add at a base that is resolvable, through the overlay or through a
\* flat or nested backer, fails, with AlreadyBacked when the region is a
\* region, and changes nothing; so does a second add at the base of a backer
\* that is a non-empty byte sequence.
C5_AddAlreadyBacked ==
    [][(/\ last'.op = "add_backer"
        /\ \/ contains(self, last'.args[1])
           \/ \E i \in 1..Len(backers) :
                /\ backers[i][1] = last'.args[1]
                /\ backers[i][2].type = "str"
                /\ backers[i][2].str # <<>>)
        => /\ last'.exc # "none"
           /\ isinstance_str_Clemory(last'.args[2]) => last'.exc = "ValueError"
           /\ UNCHANGED fields]_vars

\* an add has failed at an address only a nested backer resolves, with the
\* view valid
C5_Witness ==
    /\ last.op = "add_backer"
    /\ last.exc = "ValueError"
    /\ ~flattening_needed
    /\ last.args[1] \notin DOMAIN updates
    /\ \E i \in 1..Len(backers) :
        /\ backers[i][2].type = "Clemory"
        /\ contains(backers[i][2].mem, last.args[1] - backers[i][1])

\* C6: write fails with NotBacked exactly when a read of the address would
\* fail, and a failed write changes nothing.
C6_WriteNotBacked ==
    [][last'.op = "setitem"
        => /\ last'.exc \in {"none", "IndexError"}
           /\ last'.exc = "IndexError" <=> getitem(self, last'.args[1]).exc = "KeyError"
           /\ last'.exc # "none" => UNCHANGED fields]_vars

\* a write has failed next to a backer, with the view valid
C6_Witness ==
    /\ last.op = "setitem"
    /\ last.exc = "IndexError"
    /\ ~flattening_needed
    /\ last.args[1] \notin DOMAIN updates
    /\ contains(self, last.args[1] - 1)

\* the i-th backer is a str that covers a
InRange(i, a) ==
    /\ backers[i][2].type = "str"
    /\ backers[i][1] <= a
    /\ a < backers[i][1] + Len(backers[i][2].str)

\* the backers are byte sequences no two of which overlap
FlatDisjoint ==
    /\ \A i \in 1..Len(backers) : backers[i][2].type = "str"
    /\ \A i, j \in 1..Len(backers) :
        i # j => \A a \in AllAddr : ~(InRange(i, a) /\ InRange(j, a))

\* C7: with byte sequences that do not overlap added and nothing written,
\* a read inside a backer returns its byte at that offset, and contains is
\* true inside the backers and false everywhere else, the addresses right
\* before and right after each of them included.
C7_DisjointBackersRead ==
    (FlatDisjoint /\ updates = <<>>)
        => /\ \A a \in AllAddr :
                /\ contains(self, a) <=> \E i \in 1..Len(backers) : InRange(i, a)
                /\ \A i \in 1..Len(backers) :
                    InRange(i, a) => getitem(self, a) =
                        Return(Chr(backers[i][2].str[a - backers[i][1] + 1]))
           /\ last.op = "getitem" =>
                IF \E i \in 1..Len(backers) : InRange(i, last.args[1])
                THEN \E i \in 1..Len(backers) :
                        /\ InRange(i, last.args[1])
                        /\ last.exc = "none"
                        /\ last.ret = Chr(backers[i][2].str[last.args[1] - backers[i][1] + 1])
                ELSE last.exc = "KeyError"
           /\ last.op = "contains" =>
                last.ret = \E i \in 1..Len(backers) : InRange(i, last.args[1])

\* a read has returned the first byte of the second of two backers that do
\* not overlap, and the address between the two is not backed
C7_Witness ==
    /\ FlatDisjoint
    /\ updates = <<>>
    /\ Len(backers) = 2
    /\ last.op = "getitem"
    /\ last.exc = "none"
    /\ last.args[1] = backers[2][1]
    /\ InRange(1, backers[1][1])
    /\ ~contains(self, backers[2][1] - 1)

\* C8: snapshot round trip: the space restore builds from the snapshot of a
\* space resolves every address that space resolves, to the same value, and
\* its flattened view is marked stale.
C8_SnapshotRoundTrip ==
    last.op = "restore"
        => /\ last.obj.flattening_needed
           /\ \A a \in AllAddr :
                contains(self, a) => getitem(last.obj, a) = getitem(self, a)

\* the addresses a range or word read of the last call covers
RangeOf(l) ==
    IF l.op = "read_bytes" THEN l.args[1]..(l.args[1] + l.args[2] - 1)
    ELSE l.args[1]..(l.args[1] + arch_bytes - 1)

\* C9: readRange and readWord return a result only when every address of
\* the range is resolvable, and the result is then made of what read returns
\* at these addresses, in order; when an address of the range is not
\* resolvable they fail with NotBacked, return nothing and change nothing.
C9_RangeReadAllOrNothing ==
    [][last'.op \in {"read_bytes", "read_addr_at"}
        => LET range == RangeOf(last')
               resolvable == \A a \in range : contains(self, a)
               bytes == [i \in 1..Cardinality(range) |->
                            getitem(self, last'.args[1] + i - 1).ret]
           IN /\ UNCHANGED fields
              /\ last'.exc = "none"
                    => /\ resolvable
                       /\ last'.op = "read_bytes" => last'.ret = bytes
                       /\ last'.op = "read_addr_at" =>
                            last'.ret = struct_unpack([i \in DOMAIN bytes |-> bytes[i].c])
              /\ ~resolvable
                    => /\ last'.exc = "KeyError"
                       /\ "ret" \notin DOMAIN last'
              /\ (resolvable /\ \A i \in DOMAIN bytes : bytes[i].tag = "chr")
                    => last'.exc = "none"]_vars

\* a word read has failed at the last byte of a backer, the byte after it
\* not being backed
C9_Witness ==
    /\ last.op = "read_addr_at"
    /\ last.exc = "KeyError"
    /\ contains(self, last.args[1])
    /\ ~contains(self, last.args[1] + 1)
    /\ updates = <<>>
    /\ Len(backers) = 1
    /\ backers[1][2].type = "str"

\* C10 as stated: a stream read(n) moves the cursor by n whether the byte
\* reads succeed or fail.
C10_CursorAdvancesAlways ==
    [][last'.op = "read" => pointer' = pointer + last'.args[1]]_vars

\* C10: a stream read(n) that succeeds moves the cursor by n and returns
\* what read returns at the n addresses from the cursor on; a read of one
\* byte moves the cursor by 1 also when it fails with NotBacked; a read of
\* any other length that fails with NotBacked leaves the cursor where it was.
C10_CursorAdvance ==
    [][last'.op = "read"
        => LET n == last'.args[1]
           IN /\ (last'.exc = "none" \/ n = 1) => pointer' = pointer + n
              /\ (last'.exc = "KeyError" /\ n # 1) => pointer' = pointer
              /\ last'.exc = "none" =>
                    IF n = 1 THEN last'.ret = getitem(self, pointer).ret
                    ELSE last'.ret = [i \in 1..n |-> getitem(self, pointer + i - 1).ret.c]]_vars

\* a read of two bytes has failed with the first of them backed, and the
\* cursor is still at that byte
C10_Witness ==
    /\ last.op = "read"
    /\ last.exc = "KeyError"
    /\ last.args[1] = 2
    /\ contains(self, pointer)
    /\ ~contains(self, pointer + 1)

\* C11: rebuild idempotence: a rebuild changes neither the backers nor the
\* overlay, and a second rebuild right after it, nothing having been added,
\* replaced or written in between, ends as the first did and leaves the
\* same runs, in the same order and with the same bytes.
C11_RebuildIdempotent ==
    [][last'.op = "flatten_to_c"
        => /\ backers' = backers
           /\ updates' = updates
           /\ flatten_to_c(self') = [exc |-> last'.exc, mem |-> self']]_vars

\* a rebuild has made two runs, a written byte in one of them, out of a
\* view that was stale
C11_Witness ==
    /\ last.op = "flatten_to_c"
    /\ last.exc = "none"
    /\ Len(cbackers) = 2
    /\ \E k \in DOMAIN updates :
        \E i \in 1..2 :
            /\ cbackers_find(cbackers, 1, k) = i
            /\ cbackers[i][2][k - cbackers[i][1] + 1] = updates[k].c
            /\ getitem_scan(backers, 1, k) # Return(updates[k])

\* the backers bs are in ascending order of their starts
Sorted(bs) == \A i, j \in 1..Len(bs) : i < j => bs[i][1] <= bs[j][1]

\* C12: the backer collection is ordered by base address, ascending, in
\* every state add, replace and write reach, and so is that of the space
\* restore builds from the snapshot of such a space, and that of a space
\* given the dictionary the snapshot builds.
C12_BackersOrdered ==
    /\ Sorted(backers)
    /\ last.op = "restore" => Sorted(last.obj.backers)
    /\ getstate_out(self).exc = "none" =>
            Sorted(setstate(Clemory, getstate_out(self).ret).mem.backers)

\* an add has put a backer in front of the one added before it
C12_Witness ==
    /\ last.op = "add_backer"
    /\ last.exc = "none"
    /\ Len(backers) = 2
    /\ backers[1] = last.args
    /\ backers[1][1] < backers[2][1]
    /\ Len(setstate(Clemory, getstate_out(self).ret).mem.backers) = 2

\* C13: cache validity: whenever the flattened view is marked valid, the
\* cached runs are the runs a rebuild from the current backers and overlay
\* makes, and the byte boundedAccess points at is the byte a direct read
\* returns, after every mutation of the backers or the overlay, a write
\* made directly to a nested backer included.
C13_CacheValid ==
    /\ ~flattening_needed => stride_repr(self) = Return(cbackers)
    /\ (last.op = "read_bytes_c" /\ last.exc = "none")
            => getitem(self, last.args[1]) = Return(Chr(Deref(last.ret[1])))

\* C14: the flattened view goes from stale to valid only on a rebuild that
\* succeeds: a rebuild of a stale view that fails because an overlay entry
\* is on top of no run leaves the view marked stale.
C14_FailedRebuildStaysStale ==
    [][(/\ last'.op = "flatten_to_c"
        /\ flattening_needed
        /\ stride_repr(self).exc = "ValueError")
        => /\ last'.exc = "ValueError"
           /\ flattening_needed']_vars

\* C15: in every state add, replace, write, writeRange and writeWord
\* reach, every overlay entry is a single byte at an address that some
\* backer covers, and so a rebuild does not fail for an overlay entry that
\* is on top of no run.
C15_OverlayOnBackers ==
    /\ \A k \in DOMAIN updates :
        /\ updates[k].tag = "chr"
        /\ getitem_scan(backers, 1, k).exc = "none"
    /\ stride_repr(self).exc # "ValueError"

\* C16: after a write of v at a, every read of a returns v until the next
\* write to a, whatever add, replace, seek, stream read, rebuild or
\* boundedAccess comes in between: a byte the overlay holds at a is what a
\* read of a returns after any step that is not a write to a.
C16_WriteStaysUntilNextWrite ==
    [][\A a \in DOMAIN updates :
        (/\ updates[a].tag = "chr"
         /\ ~(last'.op = "setitem" /\ last'.args[1] = a))
        => /\ getitem(self', a) = Return(updates[a])
           /\ (last'.op = "getitem" /\ last'.args[1] = a)
                => (last'.exc = "none" /\ last'.ret = updates[a])]_vars

\* the bytes a range or word write of the last call writes
DataOf(l) ==
    IF l.op = "write_bytes" THEN l.args[2]
    ELSE struct_pack(arch_bytes, l.args[2])

\* how many addresses from a on resolve, up to n
Resolvable(a, n) ==
    CHOOSE k \in 0..n :
        /\ \A i \in 0..(k - 1) : contains(self, a + i)
        /\ k < n => ~contains(self, a + k)

\* C17: writeRange is not atomic: when the first k addresses of the range
\* resolve and the next does not, the call fails with NotBacked, the overlay
\* holds the first k bytes at these addresses and is otherwise as it was,
\* nothing else of the space has changed, and the flattened view is marked
\* stale if k > 0 and is as it was if k = 0; writeWord does the same with the
\* bytes of the encoded word.
C17_RangeWriteNotAtomic ==
    [][last'.op \in {"write_bytes", "write_addr_at"}
        => LET a == last'.args[1]
               data == DataOf(last')
               k == Resolvable(a, Len(data))
               written == a..(a + k - 1)
           IN k < Len(data)
                => /\ last'.exc = "IndexError"
                   /\ updates' = [x \in DOMAIN updates \cup written |->
                                    IF x \in written THEN Chr(data[x - a + 1])
                                    ELSE updates[x]]
                   /\ UNCHANGED <<backers, pointer, cbackers>>
                   /\ flattening_needed' = (flattening_needed \/ k > 0)]_vars

\* a word write has failed after its first byte, on a view that had been
\* rebuilt, and has left that byte in the overlay over a backer
C17_Witness ==
    /\ last.op = "write_addr_at"
    /\ last.exc = "IndexError"
    /\ flattening_needed
    /\ DOMAIN updates = {last.args[1]}
    /\ updates[last.args[1]] = Chr(DataOf(last)[1])
    /\ ~contains(self, last.args[1] + 1)
    /\ stride_repr([self EXCEPT !.updates = <<>>]) = Return(cbackers)
    /\ cbackers # <<>>

RECURSIVE Resolve(_, _)

\* what the backer b gives for the address a: the byte at a - base of a byte
\* sequence that long, what the nested space gives for a - base
BackerResolve(b, a) ==
    IF b[2].type = "str"
    THEN IF 0 <= a - b[1] /\ a - b[1] < Len(b[2].str)
         THEN Return(Chr(b[2].str[a - b[1] + 1]))
         ELSE Raise("KeyError")
    ELSE Resolve(b[2].mem, a - b[1])

\* what the space m gives for the address a: its overlay entry, or else what
\* the first of the backers that resolve a gives, or else nothing
Resolve(m, a) ==
    IF a \in DOMAIN m.updates THEN Return(m.updates[a])
    ELSE LET R == {i \in 1..Len(m.backers) :
                    BackerResolve(m.backers[i], a).exc = "none"}
         IN IF R = {} THEN Raise("KeyError")
            ELSE BackerResolve(m.backers[Min(R)], a)

\* C18: for an address with no overlay entry in the outer space, a read
\* returns what the first backer, in order, that resolves the address gives:
\* a byte sequence resolves it when it is within its length, a nested space
\* when its own read, overlay included, succeeds; a nested space that does
\* not resolve it does not stop the scan, and the read fails with NotBacked
\* only when no backer resolves it.
C18_FirstResolvingBacker ==
    /\ \A a \in AllAddr :
        a \notin DOMAIN updates => getitem(self, a) = Resolve(self, a)
    /\ (last.op = "getitem" /\ last.args[1] \notin DOMAIN updates)
        => LET r == Resolve(self, last.args[1])
           IN /\ last.exc = r.exc
              /\ r.exc = "none" => last.ret = r.ret

\* a read has returned the byte of a byte sequence behind a nested space
\* that covers other addresses, and the overlay byte of that nested space
\* comes before the byte the sequence has at the next address
C18_Witness ==
    /\ last.op = "getitem"
    /\ last.exc = "none"
    /\ updates = <<>>
    /\ Len(backers) = 2
    /\ backers[1][2].type = "Clemory"
    /\ backers[2][2].type = "str"
    /\ ~contains(backers[1][2].mem, last.args[1] - backers[1][1])
    /\ last.ret = Chr(backers[2][2].str[last.args[1] - backers[2][1] + 1])
    /\ last.args[1] + 1 - backers[1][1] \in DOMAIN backers[1][2].mem.updates
    /\ getitem(self, last.args[1] + 1)
            = Return(backers[1][2].mem.updates[last.args[1] + 1 - backers[1][1]])
    /\ getitem(self, last.args[1] + 1)
            # BackerResolve(backers[2], last.args[1] + 1)
    /\ BackerResolve(backers[2], last.args[1] + 1).exc = "none"

\* C19: no two backers have the same base address in any state add and
\* replace reach, so that a replace by base finds at most one backer, also
\* when a backer is an empty byte sequence or a nested space that does not
\* resolve its own offset 0.
C19_DistinctBases ==
    \A i, j \in 1..Len(backers) : i # j => backers[i][1] # backers[j][1]

====
